---------------------------- MODULE Spec2Model ----------------------------
(***************************************************************************)
(* A model of redrock's minimum-refinement engine (py/redrock/fitz.py) and *)
(* of the archetype scorer (py/redrock/archetypes.py).                     *)
(*                                                                         *)
(* Conventions.                                                            *)
(*  - Python arrays are 0-based, TLA+ sequences 1-based: index i of the    *)
(*    code is index i+1 of the model.                                      *)
(*  - Floating-point numbers are modelled as exact rationals <<n, d>>      *)
(*    with d > 0, kept in lowest terms; rounding is not modelled.          *)
(*  - Code that is not part of the modelled files (rebin_template,         *)
(*    transmission_Lyman, calc_zchi2_batch, _zchi2_one) is modelled by a   *)
(*    nondeterministic choice of its result from a small set.              *)
(***************************************************************************)
EXTENDS Integers, Sequences, FiniteSets, TLC

VARIABLES
    \* ---- fitz(zchi2, redshifts, spectra, template, nminima, archetype)
    zchi2,      \* coarse chi2 array (argument)
    redshifts,  \* coarse redshift grid (argument)
    spectra,    \* the spectra (argument): the ivar array of each
    template,   \* the template (argument): nbasis and the rest-frame flux
    nminima,    \* number of minima asked for (argument)
    archetype,  \* TRUE when an archetype set is supplied (archetype is not None)
    pc,         \* position of fitz
    cands,      \* the array returned by find_minima(zchi2), iterated by the for loop
    ci,         \* position of the for loop in cands
    results,    \* the list of accepted result rows
    loc,        \* locals of the loop body (zz, zzchi2, zmin, sigma, chi2min, zwarn, chi2, coeff)
    \* ---- find_minima(x), called on its own
    fx,         \* argument x
    fpc,        \* position of find_minima
    fret,       \* returned index array
    \* ---- Archetype.get_best_archetype(...), called on its own
    apc,        \* position of get_best_archetype
    narch,      \* self._narch
    subtype,    \* self._subtype
    ai,         \* loop index i
    azzchi2,    \* zzchi2
    azzcoeff,   \* zzcoeff
    aret,       \* returned (chi2, coeff, subtype)
    \* ---- minfit(x, y), called on its own
    mx,         \* argument x
    my,         \* argument y
    mpc,        \* position of minfit
    mret,       \* returned (x0, xerr, y0, zwarn)
    \* ---- a Spectrum and its sharedmem_pack / sharedmem_unpack / Rcsr
    spectrum,         \* the attributes of the Spectrum object
    shist,      \* the calls made on it so far, in order
    sexc        \* the exception the last call raised ("" when none)

vars == <<zchi2, redshifts, spectra, template, nminima, archetype, pc, cands, ci, results, loc,
          fx, fpc, fret, apc, narch, subtype, ai, azzchi2, azzcoeff, aret,
          mx, my, mpc, mret, spectrum, shist, sexc>>

fitzVars == <<zchi2, redshifts, spectra, template, nminima, archetype, pc, cands, ci, results, loc>>
fmVars   == <<fx, fpc, fret>>
archVars == <<apc, narch, subtype, ai, azzchi2, azzcoeff, aret>>
mfVars   == <<mx, my, mpc, mret>>
spVars   == <<spectrum, shist, sexc>>

-----------------------------------------------------------------------------
(* Bounds of the model *)

\* longest coarse scan given to fitz
MaxLen == 3
\* largest nminima given to fitz
MaxNminima == 2
\* longest array given to find_minima when called on its own
MaxMinimaLen == 6
\* largest number of archetypes in an archetype set
MaxArch == 3
\* largest number of calls made on one Spectrum
MaxCalls == 3

\* values of the coarse chi2 array
Chi2Values == {1, 2}
\* values of the array given to find_minima on its own
MinimaValues == {1, 2, 3}

-----------------------------------------------------------------------------
(* Exact rational arithmetic standing for the code's float arithmetic *)

Abs(n) == IF n < 0 THEN -n ELSE n

RECURSIVE GCD(_, _)
GCD(a, b) == IF b = 0 THEN a ELSE GCD(b, a % b)

\* the rational n/d (d # 0) in lowest terms with a positive denominator
Rat(n, d) ==
    LET g == GCD(Abs(n), Abs(d))
        s == IF d < 0 THEN -1 ELSE 1
    IN  <<(s * n) \div g, Abs(d) \div g>>

RInt(n) == <<n, 1>>
RAdd(p, q) == Rat(p[1] * q[2] + q[1] * p[2], p[2] * q[2])
RSub(p, q) == Rat(p[1] * q[2] - q[1] * p[2], p[2] * q[2])
RMul(p, q) == Rat(p[1] * q[1], p[2] * q[2])
RDiv(p, q) == Rat(p[1] * q[2], p[2] * q[1])
RNeg(p)    == <<-p[1], p[2]>>
RAbs(p)    == <<Abs(p[1]), p[2]>>
RLt(p, q)  == p[1] * q[2] < q[1] * p[2]
RLe(p, q)  == p[1] * q[2] <= q[1] * p[2]

-----------------------------------------------------------------------------
(* find_minima *)

\* x[1:]<=x[:-1] with True prepended, and x[:-1]<=x[1:] with True appended
IsLocalMinStrict(x, i) ==
    /\ (i = 1 \/ x[i] < x[i-1])
    /\ (i = Len(x) \/ x[i] < x[i+1])

IsLocalMinEdges(x, i) ==
    \/ i = 1
    \/ i = Len(x)
    \/ (x[i] <= x[i-1] /\ x[i] <= x[i+1])

IsLocalMin(x, i) ==
    /\ (i = 1 \/ x[i] <= x[i-1])
    /\ (i = Len(x) \/ x[i] <= x[i+1])

\* the elements of the set S of integers as an ascending sequence
RECURSIVE Ascending(_)
Ascending(S) ==
    IF S = {} THEN <<>>
    ELSE LET m == CHOOSE a \in S : \A b \in S : a <= b
         IN  <<m>> \o Ascending(S \ {m})

\* np.where(mask)[0]: the indices of the local minima, ascending
WhereMinima(x) == Ascending({i \in 1..Len(x) : IsLocalMin(x, i)})

\* np.argsort(v) with the default kind ('quicksort'): an index array that
\* sorts v.  numpy leaves the relative order of equal elements unspecified
\* (the default sort is not stable), so every order of the ties is an outcome.
\* SortOrders(v, S): the orders of the indices S that sort v.
RECURSIVE SortOrders(_, _)
SortOrders(v, S) ==
    IF S = {} THEN {<<>>}
    ELSE LET mins == {i \in S : \A j \in S : RLe(v[i], v[j])}
         IN  UNION { {<<i>> \o t : t \in SortOrders(v, S \ {i})} : i \in mins }

Argsort(v) == SortOrders(v, 1..Len(v))

\* the arrays find_minima(x) can return: ii[jj]
FindMinima(x) ==
    LET ii == WhereMinima(x)
        xi == [k \in 1..Len(ii) |-> RInt(x[ii[k]])]
    IN  {[k \in 1..Len(ii) |-> ii[jj[k]]] : jj \in Argsort(xi)}

\* sequences over S of length lo..hi
SeqsOf(S, lo, hi) == UNION {[1..n -> S] : n \in lo..hi}

-----------------------------------------------------------------------------
(* minfit *)

\* zwarn bits (redrock.zwarning.ZWarningMask), kept as a set of flag names;
\* zwarn |= bit is set union
BAD_MINFIT == {"BAD_MINFIT"}
Z_FITLIMIT == {"Z_FITLIMIT"}

\* np.polyfit(x, y, 2) on three points with distinct x: the coefficients
\* <<a, b, c>> of the parabola through them (on such points the fit is
\* exact and np.linalg.LinAlgError, lines 85-86, is not raised)
FullRank(x) == Cardinality({x[i] : i \in 1..Len(x)}) >= 3

\* np.polyfit(x, y, 2) on points with fewer than 3 distinct x: the system is
\* rank deficient and the least-squares solver either raises LinAlgError or
\* returns one of its solutions; the coefficients <<a, b, c>> it can return
RankDeficientFits == {<<<<0, 1>>, <<1, 1>>, <<1, 1>>>>, <<<<1, 1>>, <<-2, 1>>, <<2, 1>>>>}

PolyA(x, y) ==
    RDiv(RSub(RDiv(RSub(y[3], y[2]), RSub(x[3], x[2])),
              RDiv(RSub(y[2], y[1]), RSub(x[2], x[1]))),
         RSub(x[3], x[1]))

PolyB(x, y, a) ==
    RSub(RDiv(RSub(y[2], y[1]), RSub(x[2], x[1])), RMul(a, RAdd(x[1], x[2])))

PolyC(x, y, a, b) ==
    RSub(RSub(y[1], RMul(b, x[1])), RMul(a, RMul(x[1], x[1])))

PolyAB(x, y, a) == <<a, PolyB(x, y, a)>>

PolyABC(x, y, ab) == <<ab[1], ab[2], PolyC(x, y, ab[1], ab[2])>>

Polyfit2(x, y) == PolyABC(x, y, PolyAB(x, y, PolyA(x, y)))

MinfitSentinel == [x0 |-> RInt(-1), xerr |-> RInt(-1), y0 |-> RInt(-1), zwarn |-> BAD_MINFIT]

\* np.min(x), np.max(x)
RMin(x) == CHOOSE m \in {x[i] : i \in 1..Len(x)} : \A i \in 1..Len(x) : RLe(m, x[i])
RMax(x) == CHOOSE m \in {x[i] : i \in 1..Len(x)} : \A i \in 1..Len(x) : RLe(x[i], m)

MinfitFlagsNoAbs(x, a, x0, y0) ==
    [x0 |-> x0,
     xerr |-> RDiv(RInt(1), a),
     y0 |-> y0,
     zwarn |-> (IF RLe(x0, RMin(x)) \/ RLe(RMax(x), x0) THEN BAD_MINFIT ELSE {})
               \cup (IF RLe(y0, RInt(0)) THEN BAD_MINFIT ELSE {})
               \cup (IF RLt(RInt(0), a) THEN {} ELSE BAD_MINFIT)]

MinfitFlagsSentinel(x, a, x0, y0) ==
    IF RLe(x0, RMin(x)) \/ RLe(RMax(x), x0) \/ RLe(y0, RInt(0))
    THEN MinfitSentinel
    ELSE [x0 |-> x0, xerr |-> RDiv(RInt(1), RAbs(a)), y0 |-> y0,
          zwarn |-> IF RLt(RInt(0), a) THEN {} ELSE BAD_MINFIT]

\* lines 95-107 of minfit: the flags and xerr, from x, a, x0 and y0
MinfitFlags(x, a, x0, y0) ==
    [x0 |-> x0,
     xerr |-> RDiv(RInt(1), RAbs(a)),
     y0 |-> y0,
     zwarn |-> (IF RLe(x0, RMin(x)) \/ RLe(RMax(x), x0) THEN BAD_MINFIT ELSE {})
               \cup (IF RLe(y0, RInt(0)) THEN BAD_MINFIT ELSE {})
               \cup (IF RLt(RInt(0), a) THEN {} ELSE BAD_MINFIT)]

MinfitVertexNoHalf(x, abc) ==
    IF abc[1][1] = 0 THEN MinfitSentinel
    ELSE MinfitFlags(x, abc[1],
                     RDiv(RNeg(abc[2]), abc[1]),
                     RAdd(RNeg(RDiv(RMul(abc[2], abc[2]), RMul(RInt(4), abc[1]))), abc[3]))

\* lines 88-93 of minfit: a == 0, else x0 = -b/(2a) and y0 = -(b**2)/(4a) + c
MinfitVertex(x, abc) ==
    IF abc[1][1] = 0 THEN MinfitSentinel
    ELSE MinfitFlags(x, abc[1],
                     RDiv(RNeg(abc[2]), RMul(RInt(2), abc[1])),
                     RAdd(RNeg(RDiv(RMul(abc[2], abc[2]), RMul(RInt(4), abc[1]))), abc[3]))

\* minfit(x, y) -> (x0, xerr, y0, zwarn).  xerr = 1/sqrt(|a|) is not a
\* rational: the field xerr holds its square 1/|a| (and -1 for the sentinel -1).
\* On rank-deficient input minfit has several possible results: the sentinel
\* (LinAlgError, lines 85-86) and the vertex of each solution polyfit can return.
TooFewPointsTwo(x) == Len(x) < 2

\* line 79: len(x) < 3
TooFewPoints(x) == Len(x) < 3

minfit(x, y) ==
    IF TooFewPoints(x) THEN {MinfitSentinel}
    ELSE IF FullRank(x) THEN {MinfitVertex(x, Polyfit2(x, y))}
    ELSE {MinfitSentinel} \cup {MinfitVertex(x, abc) : abc \in RankDeficientFits}

-----------------------------------------------------------------------------
(* fitz: constants and helpers *)

\* c of get_dv and constants.max_velo_diff.  Velocities are measured in
\* units of half the speed of light, which keeps the products of the
\* rational arithmetic small: c is 2 units, the threshold is 1 unit.
SpeedOfLight == 2
max_velo_diff == 1

\* nz of fitz: the number of points of the fine scan
nz == 15
\* template.nbasis
nbasis == 2

\* number of arguments (after self) fitz passes to get_best_archetype, and
\* number of parameters (after self) get_best_archetype declares
ScorerArgs == 9
ScorerParams == 7

\* get_dv(z, zref)
get_dv(z, zref) ==
    RDiv(RMul(RInt(SpeedOfLight), RSub(z, zref)), RAdd(RInt(1), zref))

\* np.any(np.abs(get_dv(z, zprev)) < constants.max_velo_diff), zprev the
\* redshifts of the accepted rows
TooCloseNever(z, rows) == FALSE

TooClose(z, rows) ==
    \E r \in 1..Len(rows) :
        RLt(RAbs(get_dv(z, rows[r].z)), RInt(max_velo_diff))

\* len(results) == nminima: the break of the for loop
LoopBreakLate(rows, n) == Len(rows) = n + 1

LoopBreak(rows, n) == Len(rows) = n

linspaceNoEndpoint(lo, hi, n) ==
    [j \in 1..n |-> RAdd(lo, RDiv(RMul(RInt(j - 1), RSub(hi, lo)), RInt(n)))]

\* np.linspace(lo, hi, nz)
linspace(lo, hi, n) ==
    [j \in 1..n |-> RAdd(lo, RDiv(RMul(RInt(j - 1), RSub(hi, lo)), RInt(n - 1)))]

\* the fine grid of candidate imin (1-based): ilo = max(0, imin-1),
\* ihi = min(imin+1, len(zchi2)-1)
FineGrid(imin) ==
    LET ilo == IF imin - 1 < 1 THEN 1 ELSE imin - 1
        ihi == IF imin + 1 > Len(zchi2) THEN Len(zchi2) ELSE imin + 1
    IN  linspace(RInt(redshifts[ilo]), RInt(redshifts[ihi]), nz)

\* the results calc_zchi2_batch can give for the nz points of a fine scan:
\* chi2 is m at point k, m+u and m+v at its left and right neighbours,
\* m+u+w and m+v+w two points away, and m+far elsewhere
FineShapes ==
    { [k |-> 8,  m |-> 1, u |-> 1, v |-> 1, w |-> 2, far |-> 9],
      [k |-> 8,  m |-> 1, u |-> 2, v |-> 1, w |-> 2, far |-> 9],
      [k |-> 8,  m |-> 0, u |-> 1, v |-> 1, w |-> 2, far |-> 9],
      [k |-> 1,  m |-> 1, u |-> 0, v |-> 2, w |-> 4, far |-> 9],
      [k |-> 1,  m |-> 1, u |-> 0, v |-> 2, w |-> 1, far |-> 9],
      [k |-> 1,  m |-> 1, u |-> 0, v |-> 0, w |-> 2, far |-> 9],
      [k |-> 15, m |-> 2, u |-> 2, v |-> 0, w |-> 4, far |-> 9],
      [k |-> 1,  m |-> 1, u |-> 0, v |-> 0, w |-> 0, far |-> 0] }

FineChi2(s) ==
    [j \in 1..nz |->
        IF j = s.k THEN s.m
        ELSE IF j = s.k - 1 THEN s.m + s.u
        ELSE IF j = s.k + 1 THEN s.m + s.v
        ELSE IF j = s.k - 2 THEN s.m + s.u + s.w
        ELSE IF j = s.k + 2 THEN s.m + s.v + s.w
        ELSE s.m + s.far]

\* the results the single-point calc_zchi2_batch can give at zmin
EvalChi2 == {3, 4}
EvalCoeff == {[b \in 1..nbasis |-> 1]}

\* the templates given to fitz: nbasis and the rest-frame flux samples
TemplateInputs == {[nbasis |-> nbasis, flux |-> <<1, 2>>]}

\* rebin_template(template, zz, dwave): a new array with one row per redshift,
\* which shares no storage with the template
rebin_template(t, n) == [j \in 1..n |-> t.flux]

\* the results transmission_Lyman can give: None (<<>>) or a factor (<<T>>)
LymanOutcomes == {<<>>, <<2>>}

MultiplyInPlaceAliased(t, binned, T) ==
    <<[t EXCEPT !.flux = [i \in DOMAIN t.flux |-> t.flux[i] * T]],
      [j \in DOMAIN binned |-> [i \in DOMAIN binned[j] |-> binned[j][i] * T]]>>

\* binned[k] *= T[:,:,None]: the in-place product changes the array bound to
\* binned and nothing else; the pair <<template, binned>> after the statement
MultiplyInPlace(t, binned, T) ==
    <<t, [j \in DOMAIN binned |-> [i \in DOMAIN binned[j] |-> binned[j][i] * T]]>>

\* lines 180-191 and 199-206: rebin, then the Lyman correction when T is not
\* None; the template after these statements
TemplateAfterRebin(t, n, T) ==
    IF T = <<>> THEN t ELSE MultiplyInPlace(t, rebin_template(t, n), T[1])[1]

ZeroCoeffOnes == [b \in 1..nbasis |-> 1]

\* np.zeros(template.nbasis)
ZeroCoeff == [b \in 1..nbasis |-> 0]

\* np.argmin(v): the first index of the minimum
argmin(v) == CHOOSE i \in 1..Len(v) :
    /\ \A j \in 1..Len(v) : v[i] <= v[j]
    /\ \A j \in 1..(i - 1) : v[j] > v[i]

NoLoc == [set |-> FALSE]

\* the redshift grids: 0, 1, ..., n-1
Grid(n) == [k \in 1..n |-> k - 1]

\* the spectra given to fitz: each spectrum is its ivar array
SpectraInputs == { << <<0, 1>>, <<1, 2, 0>> >> }

RECURSIVE CountNonNegative(_)
CountNonNegative(v) ==
    IF v = <<>> THEN 0
    ELSE (IF Head(v) >= 0 THEN 1 ELSE 0) + CountNonNegative(Tail(v))

\* (s.ivar > 0.).sum() summed over the spectra
RECURSIVE CountPositive(_)
CountPositive(v) ==
    IF v = <<>> THEN 0
    ELSE (IF Head(v) > 0 THEN 1 ELSE 0) + CountPositive(Tail(v))

RECURSIVE NPixels(_)
NPixels(sp) ==
    IF sp = <<>> THEN 0 ELSE CountPositive(Head(sp)) + NPixels(Tail(sp))

-----------------------------------------------------------------------------
(* Archetype.get_best_archetype *)

\* the results _zchi2_one can give for one archetype
ArchChi2 == {1, 2}
ArchCoeff == {1, 2}

\* range(self._narch) is exhausted
ArchLoopEnd(i, n) == i > n

BestArchetypeLast(zc, zco, st) ==
    LET iLast == CHOOSE i \in 1..Len(zc) :
                    /\ \A j \in 1..Len(zc) : zc[i] <= zc[j]
                    /\ \A j \in (i + 1)..Len(zc) : zc[j] > zc[i]
    IN  <<zc[iLast], zco[iLast], st[iLast]>>

\* iBest = sp.argmin(zzchi2); return zzchi2[iBest], zzcoeff[iBest], self._subtype[iBest]
BestArchetype(zc, zco, st) ==
    LET iBest == argmin(zc)
    IN  <<zc[iBest], zco[iBest], st[iBest]>>

-----------------------------------------------------------------------------
(* fitz *)

\* line 129: the length assertion; line 155: results = list(); line 160:
\* find_minima(zchi2) is evaluated once, before the first iteration (on an
\* empty zchi2 its ii is [0] and x[ii], line 61, raises IndexError)
Start ==
    /\ pc = "start"
    /\ IF Len(zchi2) # Len(redshifts)
       THEN /\ pc' = "AssertionError"
            /\ UNCHANGED <<cands, ci, results>>
       ELSE IF Len(zchi2) = 0
       THEN /\ pc' = "IndexError"
            /\ UNCHANGED <<cands, ci, results>>
       ELSE /\ cands' \in FindMinima(zchi2)
            /\ ci' = 1
            /\ results' = <<>>
            /\ pc' = "loop"
    /\ UNCHANGED <<zchi2, redshifts, spectra, template, nminima, archetype, loc>>

\* lines 160-162: the candidates are exhausted, or nminima rows are accepted
LoopEnd ==
    /\ pc = "loop"
    /\ ci > Len(cands) \/ LoopBreak(results, nminima)
    /\ pc' = "final"
    /\ UNCHANGED <<zchi2, redshifts, spectra, template, nminima, archetype, cands, ci, results, loc>>

\* lines 164-169: the coarse candidate is too close to an accepted row
EarlySkip ==
    /\ pc = "loop"
    /\ ci <= Len(cands) /\ ~LoopBreak(results, nminima)
    /\ TooClose(RInt(redshifts[cands[ci]]), results)
    /\ ci' = ci + 1
    /\ UNCHANGED <<zchi2, redshifts, spectra, template, nminima, archetype, pc, cands, results, loc>>

\* lines 194-196: i = min(max(np.argmin(zzchi2), 1), len(zz)-2), and the
\* parabola through points i-1, i, i+1.  The locals chi2 and coeff are bound
\* by the evaluation at zmin: chi2 is <<>> before it and <<chi2>> after it,
\* coeff is <<>> before it.
\* The fields fitx and fity are the arguments of the minfit call, zzcoeff the
\* coefficient rows of the fine scan.
\* v[start:stop] of Python, start and stop 0-based, a negative one counted
\* from the end
SliceBound(k, n) == IF k < 0 THEN (IF n + k < 0 THEN 0 ELSE n + k) ELSE IF k > n THEN n ELSE k

Slice(v, start, stop) ==
    SubSeq(v, SliceBound(start, Len(v)) + 1, SliceBound(stop, Len(v)))

\* zz[i-1:i+2] and zzchi2[i-1:i+2], for the 1-based index i
WindowOf(v, i) == Slice(v, i - 2, i + 1)

FitWindow(zz, zzchi2, i) ==
    minfit(WindowOf(zz, i), [j \in 1..Len(WindowOf(zzchi2, i)) |-> RInt(WindowOf(zzchi2, i)[j])])

ClampIndexNone(am, n) == am

ClampIndex(am, n) == IF am < 2 THEN 2 ELSE IF am > n - 1 THEN n - 1 ELSE am

\* the coefficient rows calc_zchi2_batch gives for the points of a fine scan
FineCoeff == [b \in 1..nbasis |-> 2]

LocalsOf(zz, zzchi2, i, fit) ==
    [set |-> TRUE, zz |-> zz, zzchi2 |-> zzchi2,
     zzcoeff |-> [j \in 1..Len(zz) |-> FineCoeff],
     fitx |-> WindowOf(zz, i), fity |-> WindowOf(zzchi2, i),
     zmin |-> fit.x0, sigma |-> fit.xerr, chi2min |-> fit.y0,
     zwarn |-> fit.zwarn, chi2 |-> <<>>, coeff |-> <<>>]

RefinedAt(zz, zzchi2, i) ==
    {LocalsOf(zz, zzchi2, i, fit) : fit \in FitWindow(zz, zzchi2, i)}

Refined(zz, zzchi2) ==
    RefinedAt(zz, zzchi2, ClampIndex(argmin(zzchi2), Len(zz)))

\* lines 171-196: the fine scan around the candidate and the parabola through
\* the 3 points around its minimum
FineScan ==
    /\ pc = "loop"
    /\ ci <= Len(cands) /\ ~LoopBreak(results, nminima)
    /\ ~TooClose(RInt(redshifts[cands[ci]]), results)
    /\ \E s \in FineShapes :
        loc' \in Refined(FineGrid(cands[ci]), FineChi2(s))
    /\ \E T \in LymanOutcomes : template' = TemplateAfterRebin(template, nz, T)
    /\ pc' = "eval"
    /\ UNCHANGED <<zchi2, redshifts, spectra, nminima, archetype, cands, ci, results>>

\* lines 198-209: the evaluation at zmin succeeds
EvalOK ==
    /\ pc = "eval"
    /\ \E c2 \in EvalChi2, co \in EvalCoeff :
        loc' = [loc EXCEPT !.chi2 = <<c2>>, !.coeff = co]
    /\ \E T \in LymanOutcomes : template' = TemplateAfterRebin(template, 1, T)
    /\ pc' = "accept"
    /\ UNCHANGED <<zchi2, redshifts, spectra, nminima, archetype, cands, ci, results>>

\* lines 210-218: the evaluation at zmin raises ValueError
EvalValueError ==
    /\ pc = "eval"
    /\ IF \/ RLt(loc.zmin, RInt(redshifts[1]))
          \/ RLt(RInt(redshifts[Len(redshifts)]), loc.zmin)
       THEN /\ loc' = [loc EXCEPT !.coeff = ZeroCoeff,
                                  !.zwarn = @ \cup Z_FITLIMIT \cup BAD_MINFIT]
            /\ pc' = "accept"
       ELSE /\ pc' = "ValueError"
            /\ UNCHANGED loc
    /\ UNCHANGED <<zchi2, redshifts, spectra, template, nminima, archetype, cands, ci, results>>

NearScanEdgeNever(z) == FALSE

\* lines 231 and 233: z < redshifts[1] or z > redshifts[-2]
NearScanEdge(z) ==
    RLt(z, RInt(redshifts[2])) \/ RLt(RInt(redshifts[Len(redshifts) - 1]), z)

OutsideFineScanNever(l) == FALSE

\* line 222: zmin < zz[0] or zmin > zz[-1]
OutsideFineScan(l) == RLt(l.zmin, l.zz[1]) \/ RLt(l.zz[Len(l.zz)], l.zmin)

AcceptedFineCoeff(l) ==
    LET out == OutsideFineScan(l)
        imin == argmin(l.zzchi2)
        zbest == IF out THEN l.zz[imin] ELSE l.zmin
        chi2min == IF out THEN RInt(l.zzchi2[imin]) ELSE l.chi2min
        w1 == IF out THEN BAD_MINFIT ELSE {}
        w2 == IF NearScanEdge(zbest) THEN Z_FITLIMIT ELSE {}
        w3 == IF NearScanEdge(l.zmin) THEN Z_FITLIMIT ELSE {}
    IN  [z |-> zbest, zerr |-> l.sigma, zwarn |-> l.zwarn \cup w1 \cup w2 \cup w3,
         chi2 |-> chi2min, zz |-> l.zz, zzchi2 |-> l.zzchi2,
         coeff |-> IF out THEN l.zzcoeff[imin] ELSE l.coeff]

AcceptedSinglePoint(l) ==
    LET out == OutsideFineScan(l)
        imin == argmin(l.zzchi2)
        zbest == IF out THEN l.zz[imin] ELSE l.zmin
        chi2min == IF out THEN RInt(l.zzchi2[imin])
                   ELSE IF l.chi2 = <<>> THEN l.chi2min ELSE RInt(l.chi2[1])
        w1 == IF out THEN BAD_MINFIT ELSE {}
        w2 == IF NearScanEdge(zbest) THEN Z_FITLIMIT ELSE {}
        w3 == IF NearScanEdge(l.zmin) THEN Z_FITLIMIT ELSE {}
    IN  [z |-> zbest, zerr |-> l.sigma, zwarn |-> l.zwarn \cup w1 \cup w2 \cup w3,
         chi2 |-> chi2min, zz |-> l.zz, zzchi2 |-> l.zzchi2, coeff |-> l.coeff]

\* lines 220-234: the accepted redshift, chi2 and flags of the candidate
Accepted(l) ==
    LET out == OutsideFineScan(l)
        imin == argmin(l.zzchi2)
        zbest == IF out THEN l.zz[imin] ELSE l.zmin
        chi2min == IF out THEN RInt(l.zzchi2[imin]) ELSE l.chi2min
        w1 == IF out THEN BAD_MINFIT ELSE {}
        w2 == IF NearScanEdge(zbest) THEN Z_FITLIMIT ELSE {}
        w3 == IF NearScanEdge(l.zmin) THEN Z_FITLIMIT ELSE {}
    IN  [z |-> zbest, zerr |-> l.sigma, zwarn |-> l.zwarn \cup w1 \cup w2 \cup w3,
         chi2 |-> chi2min, zz |-> l.zz, zzchi2 |-> l.zzchi2, coeff |-> l.coeff]

\* lines 230-231: redshifts[1] on a grid of fewer than 2 points raises IndexError
FitLimitIndexError ==
    /\ pc = "accept"
    /\ Len(redshifts) < 2
    /\ pc' = "IndexError"
    /\ UNCHANGED <<zchi2, redshifts, spectra, template, nminima, archetype, cands, ci, results, loc>>

\* lines 236-241: the refined redshift is too close to an accepted row
LateSkip ==
    /\ pc = "accept"
    /\ Len(redshifts) >= 2
    /\ TooClose(Accepted(loc).z, results)
    /\ ci' = ci + 1
    /\ loc' = NoLoc
    /\ pc' = "loop"
    /\ UNCHANGED <<zchi2, redshifts, spectra, template, nminima, archetype, cands, results>>

\* lines 243-246: no archetype set, the row is appended
AppendTemplate ==
    /\ pc = "accept"
    /\ Len(redshifts) >= 2
    /\ ~TooClose(Accepted(loc).z, results)
    /\ ~archetype
    /\ results' = Append(results, Accepted(loc))
    /\ ci' = ci + 1
    /\ loc' = NoLoc
    /\ pc' = "loop"
    /\ UNCHANGED <<zchi2, redshifts, spectra, template, nminima, archetype, cands>>

\* lines 247-252: the archetype scorer is called with ScorerArgs arguments;
\* a call that does not match the signature raises TypeError
ScoreArchetype ==
    /\ pc = "accept"
    /\ Len(redshifts) >= 2
    /\ ~TooClose(Accepted(loc).z, results)
    /\ archetype
    /\ IF ScorerArgs = ScorerParams
       THEN \E n \in 1..MaxArch :
              \E zc \in [1..n -> ArchChi2], zco \in [1..n -> ArchCoeff] :
                LET best == BestArchetype(zc, zco, [i \in 1..n |-> i])
                    row == [Accepted(loc) EXCEPT !.chi2 = RInt(best[1]),
                                                 !.coeff = best[2]]
                IN  /\ results' = Append(results,
                          [f \in DOMAIN row \cup {"fulltype"} |->
                              IF f = "fulltype" THEN best[3] ELSE row[f]])
                    /\ ci' = ci + 1
                    /\ loc' = NoLoc
                    /\ pc' = "loop"
       ELSE /\ pc' = "TypeError"
            /\ UNCHANGED <<ci, results, loc>>
    /\ UNCHANGED <<zchi2, redshifts, spectra, template, nminima, archetype, cands>>

\* lines 254-256: the rows in an order that sorts their chi2
SortedRowsUnsorted(rows) == {rows}

SortedRows(rows) ==
    {[k \in 1..Len(rows) |-> rows[p[k]]] :
        p \in Argsort([k \in 1..Len(rows) |-> rows[k].chi2])}

NonEmptyUnchecked(rows) == TRUE

\* line 258: assert len(results) > 0
NonEmpty(rows) == Len(rows) > 0

\* lines 254-283: sort, the non-empty assertion, npixels, the columns
Finalize ==
    /\ pc = "final"
    /\ \E sorted \in SortedRows(results) :
        IF NonEmpty(sorted)
        THEN /\ results' = [k \in 1..Len(sorted) |->
                    [f \in DOMAIN sorted[k] \cup {"npixels"} |->
                        IF f = "npixels" THEN NPixels(spectra) ELSE sorted[k][f]]]
             /\ pc' = "done"
        ELSE /\ results' = sorted
             /\ pc' = "AssertionError"
    /\ UNCHANGED <<zchi2, redshifts, spectra, template, nminima, archetype, cands, ci, loc>>

-----------------------------------------------------------------------------
(* find_minima and get_best_archetype called on their own *)

FindMinimaCall ==
    /\ fpc = "call"
    /\ fret' \in FindMinima(fx)
    /\ fpc' = "done"
    /\ UNCHANGED fx

\* lines 99-101: the arrays start as zeros
ArchStart ==
    /\ apc = "start"
    /\ azzchi2' = [i \in 1..narch |-> 0]
    /\ azzcoeff' = [i \in 1..narch |-> 0]
    /\ ai' = 1
    /\ apc' = "loop"
    /\ UNCHANGED <<narch, subtype, aret>>

\* lines 103-110: one archetype is evaluated
ArchEval ==
    /\ apc = "loop"
    /\ ~ArchLoopEnd(ai, narch)
    /\ \E c2 \in ArchChi2, co \in ArchCoeff :
        /\ azzchi2' = [azzchi2 EXCEPT ![ai] = c2]
        /\ azzcoeff' = [azzcoeff EXCEPT ![ai] = co]
    /\ ai' = ai + 1
    /\ UNCHANGED <<apc, narch, subtype, aret>>

\* lines 112-116: the best archetype is returned
ArchReturn ==
    /\ apc = "loop"
    /\ ArchLoopEnd(ai, narch)
    /\ aret' = BestArchetype(azzchi2, azzcoeff, subtype)
    /\ apc' = "done"
    /\ UNCHANGED <<narch, subtype, ai, azzchi2, azzcoeff>>

\* minfit called on its own
MinfitCall ==
    /\ mpc = "call"
    /\ mret' \in minfit([i \in 1..Len(mx) |-> RInt(mx[i])], [i \in 1..Len(my) |-> RInt(my[i])])
    /\ mpc' = "done"
    /\ UNCHANGED <<mx, my>>

-----------------------------------------------------------------------------
(* Spectrum (py/redrock/targets.py): shared-memory packing *)

\* An attribute of the object is <<>> when the object does not have it and
\* <<v>> when it has it with value v.  None is the value <<>>.  The arrays
\* wave, flux and ivar are [shared, v]: their storage and their values; the
\* other arrays are their values.  A DIA matrix is <<data, offsets, shape>>,
\* a CSR matrix <<data, indices, indptr, shape>>.
None == <<>>
Missing == <<>>

\* utils.mp_array(a): a copy of a in multiprocessing shared memory
mp_array(a) == [shared |-> TRUE, v |-> a.v]

\* np.array(a): a copy of a in process memory
np_array(a) == [shared |-> FALSE, v |-> a.v]

\* scipy.sparse.dia_matrix((data, offsets), shape=shape)
dia_matrix(data, offsets, shape) == <<data, offsets, shape>>

\* scipy.sparse.csr_matrix((data, indices, indptr), shape=shape)
csr_matrix(data, indices, indptr, shape) == <<data, indices, indptr, shape>>

\* element (i, j) of the DIA matrix R: data[k][j] on the diagonal offsets[k] = j - i
DiaEntry(R, i, j) ==
    LET ks == {k \in 1..Len(R[2]) : R[2][k] = j - i}
    IN  IF ks = {} THEN 0 ELSE R[1][CHOOSE k \in ks : TRUE][j]

\* the nonzero elements of row i from column j on, as <<column (0-based), value>>
RECURSIVE RowEntries(_, _, _)
RowEntries(R, i, j) ==
    IF j > R[3][2] THEN <<>>
    ELSE (IF DiaEntry(R, i, j) # 0 THEN <<<<j - 1, DiaEntry(R, i, j)>>>> ELSE <<>>)
         \o RowEntries(R, i, j + 1)

RECURSIVE EntriesFrom(_, _)
EntriesFrom(R, i) ==
    IF i > R[3][1] THEN <<>> ELSE RowEntries(R, i, 1) \o EntriesFrom(R, i + 1)

RECURSIVE IndPtrFrom(_, _, _)
IndPtrFrom(R, i, k) ==
    IF i > R[3][1] THEN <<k>>
    ELSE <<k>> \o IndPtrFrom(R, i + 1, k + Len(RowEntries(R, i, 1)))

\* R.tocsr()
tocsr(R) ==
    csr_matrix([e \in 1..Len(EntriesFrom(R, 1)) |-> EntriesFrom(R, 1)[e][2]],
               [e \in 1..Len(EntriesFrom(R, 1)) |-> EntriesFrom(R, 1)[e][1]],
               IndPtrFrom(R, 1, 0), R[3])

\* lines 68-75: the CSR attributes after packing
PackCsr(s) ==
    IF s.Rcsr_[1] # None
    THEN [s EXCEPT !.csrshape = <<s.Rcsr_[1][4]>>,
                   !.Rcsr_indices = <<s.Rcsr_[1][2]>>,
                   !.Rcsr_indptr = <<s.Rcsr_[1][3]>>,
                   !.Rcsr_data = <<s.Rcsr_[1][1]>>,
                   !.Rcsr_ = Missing]
    ELSE [s EXCEPT !.Rcsr_data = <<None>>]

\* lines 62-66: the DIA attributes after packing
PackDia(s) ==
    [s EXCEPT !.ndiag = <<Len(s.R[1][1])>>,
              !.splen = <<Len(s.R[1][1][1])>>,
              !.R_offsets = <<s.R[1][2]>>,
              !.R_data = <<s.R[1][1]>>,
              !.R = Missing]

\* lines 58-60
PackArrays(s) ==
    [s EXCEPT !.wave = mp_array(@), !.flux = mp_array(@), !.ivar = mp_array(@)]

\* Spectrum.sharedmem_pack: the object after the call and the exception raised
\* (self.R.data on R = None raises AttributeError after lines 58-60)
sharedmem_pack(s) ==
    IF s.mpshared THEN [obj |-> s, exc |-> ""]
    ELSE IF s.R[1] = None THEN [obj |-> PackArrays(s), exc |-> "AttributeError"]
    ELSE [obj |-> [PackCsr(PackDia(PackArrays(s))) EXCEPT !.mpshared = TRUE], exc |-> ""]

UnpackCsrNone(s) == [s EXCEPT !.Rcsr_ = <<None>>]

\* lines 93-101: the CSR attributes after unpacking
UnpackCsr(s) ==
    IF s.Rcsr_data[1] # None
    THEN [s EXCEPT !.Rcsr_ = <<csr_matrix(s.Rcsr_data[1], s.Rcsr_indices[1],
                                          s.Rcsr_indptr[1], s.csrshape[1])>>,
                   !.Rcsr_data = Missing,
                   !.Rcsr_indices = Missing,
                   !.Rcsr_indptr = Missing]
    ELSE [s EXCEPT !.Rcsr_ = <<None>>]

\* lines 88-91
UnpackDia(s) ==
    [s EXCEPT !.R = <<dia_matrix(s.R_data[1], s.R_offsets[1], <<s.splen[1], s.splen[1]>>)>>,
              !.R_data = Missing,
              !.R_offsets = Missing]

\* lines 84-86
UnpackArrays(s) ==
    [s EXCEPT !.wave = np_array(@), !.flux = np_array(@), !.ivar = np_array(@)]

\* Spectrum.sharedmem_unpack
sharedmem_unpack(s) ==
    IF s.mpshared
    THEN [obj |-> [UnpackCsr(UnpackDia(UnpackArrays(s))) EXCEPT !.mpshared = FALSE], exc |-> ""]
    ELSE [obj |-> s, exc |-> ""]

\* the property Spectrum.Rcsr: reading a deleted _Rcsr, or R.tocsr() on a
\* deleted or None R, raises AttributeError
Rcsr(s) ==
    IF s.Rcsr_ = Missing THEN [obj |-> s, exc |-> "AttributeError"]
    ELSE IF s.Rcsr_[1] # None THEN [obj |-> s, exc |-> ""]
    ELSE IF s.R = Missing \/ s.R = <<None>> THEN [obj |-> s, exc |-> "AttributeError"]
    ELSE [obj |-> [s EXCEPT !.Rcsr_ = <<tocsr(s.R[1])>>], exc |-> ""]

CallPack ==
    /\ Len(shist) < MaxCalls
    /\ spectrum' = sharedmem_pack(spectrum).obj
    /\ sexc' = sharedmem_pack(spectrum).exc
    /\ shist' = Append(shist, "pack")

CallUnpack ==
    /\ Len(shist) < MaxCalls
    /\ spectrum' = sharedmem_unpack(spectrum).obj
    /\ sexc' = sharedmem_unpack(spectrum).exc
    /\ shist' = Append(shist, "unpack")

CallRcsr ==
    /\ Len(shist) < MaxCalls
    /\ spectrum' = Rcsr(spectrum).obj
    /\ sexc' = Rcsr(spectrum).exc
    /\ shist' = Append(shist, "Rcsr")

\* the resolution matrices given to the constructor: None, a diagonal matrix
\* and a tridiagonal matrix, 2 x 2
ResolutionInputs ==
    {None,
     dia_matrix(<<<<1, 2>>>>, <<0>>, <<2, 2>>),
     dia_matrix(<<<<1, 0>>, <<2, 1>>, <<0, 1>>>>, <<-1, 0, 1>>, <<2, 2>>)}

\* Spectrum(wave, flux, ivar, R, Rcsr): lines 31-45
NewSpectrum(wave, flux, ivar, R, csr) ==
    [wave |-> [shared |-> FALSE, v |-> wave],
     flux |-> [shared |-> FALSE, v |-> flux],
     ivar |-> [shared |-> FALSE, v |-> ivar],
     R |-> <<R>>, Rcsr_ |-> <<csr>>, mpshared |-> FALSE,
     ndiag |-> Missing, splen |-> Missing, R_offsets |-> Missing, R_data |-> Missing,
     csrshape |-> Missing, Rcsr_indices |-> Missing, Rcsr_indptr |-> Missing,
     Rcsr_data |-> Missing]

-----------------------------------------------------------------------------
(* Specifications *)

FitzIdle ==
    /\ zchi2 = <<>> /\ redshifts = <<>> /\ spectra = <<>> /\ template = <<>> /\ nminima = 0
    /\ archetype = FALSE /\ pc = "idle" /\ cands = <<>> /\ ci = 0
    /\ results = <<>> /\ loc = NoLoc

MinimaIdle == fx = <<>> /\ fpc = "idle" /\ fret = <<>>

SpectrumIdle == spectrum = <<>> /\ shist = <<>> /\ sexc = ""

MinfitIdle == mx = <<>> /\ my = <<>> /\ mpc = "idle" /\ mret = MinfitSentinel

ArchIdle ==
    /\ apc = "idle" /\ narch = 0 /\ subtype = <<>> /\ ai = 0
    /\ azzchi2 = <<>> /\ azzcoeff = <<>> /\ aret = <<>>

\* a call of fitz
Init ==
    /\ zchi2 \in SeqsOf(Chi2Values, 0, MaxLen)
    /\ redshifts \in {Grid(Len(zchi2)), Grid(Len(zchi2) + 1)}
    /\ spectra \in SpectraInputs
    /\ template \in TemplateInputs
    /\ nminima \in 0..MaxNminima
    /\ archetype \in BOOLEAN
    /\ pc = "start"
    /\ cands = <<>>
    /\ ci = 0
    /\ results = <<>>
    /\ loc = NoLoc
    /\ MinimaIdle
    /\ ArchIdle
    /\ MinfitIdle
    /\ SpectrumIdle

Next ==
    \/ (Start /\ UNCHANGED <<fmVars, archVars, mfVars, spVars>>)
    \/ (LoopEnd /\ UNCHANGED <<fmVars, archVars, mfVars, spVars>>)
    \/ (EarlySkip /\ UNCHANGED <<fmVars, archVars, mfVars, spVars>>)
    \/ (FineScan /\ UNCHANGED <<fmVars, archVars, mfVars, spVars>>)
    \/ (EvalOK /\ UNCHANGED <<fmVars, archVars, mfVars, spVars>>)
    \/ (EvalValueError /\ UNCHANGED <<fmVars, archVars, mfVars, spVars>>)
    \/ (FitLimitIndexError /\ UNCHANGED <<fmVars, archVars, mfVars, spVars>>)
    \/ (LateSkip /\ UNCHANGED <<fmVars, archVars, mfVars, spVars>>)
    \/ (AppendTemplate /\ UNCHANGED <<fmVars, archVars, mfVars, spVars>>)
    \/ (ScoreArchetype /\ UNCHANGED <<fmVars, archVars, mfVars, spVars>>)
    \/ (Finalize /\ UNCHANGED <<fmVars, archVars, mfVars, spVars>>)

Spec == Init /\ [][Next]_vars

\* a call of find_minima
InitMinima ==
    /\ fx \in SeqsOf(MinimaValues, 1, MaxMinimaLen)
    /\ fpc = "call"
    /\ fret = <<>>
    /\ FitzIdle
    /\ ArchIdle
    /\ MinfitIdle
    /\ SpectrumIdle

NextMinima == FindMinimaCall /\ UNCHANGED <<fitzVars, archVars, mfVars, spVars>>

SpecMinima == InitMinima /\ [][NextMinima]_vars

\* a call of Archetype.get_best_archetype
InitArch ==
    /\ narch \in 1..MaxArch
    /\ subtype = [i \in 1..narch |-> i]
    /\ apc = "start"
    /\ ai = 0
    /\ azzchi2 = <<>>
    /\ azzcoeff = <<>>
    /\ aret = <<>>
    /\ FitzIdle
    /\ MinimaIdle
    /\ MinfitIdle
    /\ SpectrumIdle

NextArch ==
    \/ (ArchStart /\ UNCHANGED <<fitzVars, fmVars, mfVars, spVars>>)
    \/ (ArchEval /\ UNCHANGED <<fitzVars, fmVars, mfVars, spVars>>)
    \/ (ArchReturn /\ UNCHANGED <<fitzVars, fmVars, mfVars, spVars>>)

SpecArch == InitArch /\ [][NextArch]_vars

\* the x and y values given to minfit when it is called on its own
MinfitX == {0, 1, 2}
MinfitY == {0, 1, 2, 3}

\* a call of minfit on 0 to 3 points
InitMinfit ==
    /\ \E n \in 0..3 : mx \in [1..n -> MinfitX] /\ my \in [1..n -> MinfitY]
    /\ mpc = "call"
    /\ mret = MinfitSentinel
    /\ FitzIdle
    /\ MinimaIdle
    /\ ArchIdle
    /\ SpectrumIdle

NextMinfit == MinfitCall /\ UNCHANGED <<fitzVars, fmVars, archVars, spVars>>

SpecMinfit == InitMinfit /\ [][NextMinfit]_vars

\* a Spectrum after its construction, then up to MaxCalls calls of
\* sharedmem_pack, sharedmem_unpack and Rcsr
InitSpectrum ==
    /\ \E flux \in [1..2 -> {0, 1}], ivar \in [1..2 -> {0, 1}], R \in ResolutionInputs :
        \E csr \in {None} \cup (IF R = None THEN {} ELSE {tocsr(R)}) :
            spectrum = NewSpectrum(<<1, 2>>, flux, ivar, R, csr)
    /\ shist = <<>>
    /\ sexc = ""
    /\ FitzIdle
    /\ MinimaIdle
    /\ ArchIdle
    /\ MinfitIdle

NextSpectrum ==
    \/ (CallPack /\ UNCHANGED <<fitzVars, fmVars, archVars, mfVars>>)
    \/ (CallUnpack /\ UNCHANGED <<fitzVars, fmVars, archVars, mfVars>>)
    \/ (CallRcsr /\ UNCHANGED <<fitzVars, fmVars, archVars, mfVars>>)

SpecSpectrum == InitSpectrum /\ [][NextSpectrum]_vars

-----------------------------------------------------------------------------
(* Properties *)

\* |get_dv(z, zref)| >= constants.max_velo_diff
Separated(z, zref) == ~RLt(RAbs(get_dv(z, zref)), RInt(max_velo_diff))

\* C1: the result set fitz returns is sorted by non-decreasing chi2: every
\* row's chi2 is <= the chi2 of the row after it.
C1_SortedByChi2 ==
    pc = "done" =>
        \A k \in 1..(Len(results) - 1) : RLe(results[k].chi2, results[k+1].chi2)

\* fitz has returned two rows with different chi2, and the first row comes
\* from a candidate that was refined after the candidate of the second row
C1_Witness ==
    /\ pc = "done"
    /\ Len(results) = 2
    /\ RLt(results[1].chi2, results[2].chi2)
    /\ \E a, b \in 1..Len(cands) :
        /\ a < b
        /\ FineGrid(cands[a]) # FineGrid(cands[b])
        /\ results[1].zz = FineGrid(cands[b])
        /\ results[2].zz = FineGrid(cands[a])

\* C2 as stated: in every state, every ordered pair (i, j), i # j, of accepted
\* rows has |c (z_i - z_j) / (1 + z_j)| >= max_velo_diff.
C2_DedupBothOrderings ==
    \A i, j \in 1..Len(results) :
        i # j => Separated(results[i].z, results[j].z)

\* C2 as amended: while the loop runs, every accepted row is separated from
\* every row accepted before it, the earlier row being the reference; in
\* every state, including the returned result set, each pair of rows is
\* separated in at least one of its two orderings.
C2_DedupEarlierAsReference ==
    /\ pc # "done" =>
        \A i, j \in 1..Len(results) :
            i < j => Separated(results[j].z, results[i].z)
    /\ \A i, j \in 1..Len(results) :
            i # j => \/ Separated(results[i].z, results[j].z)
                     \/ Separated(results[j].z, results[i].z)

\* two rows are accepted and at least one candidate was skipped as a duplicate
C2_Witness ==
    /\ pc = "loop"
    /\ Len(results) = 2
    /\ ci - 1 > Len(results)

\* C3: for nminima >= 1 the number of accepted rows never exceeds nminima,
\* and no candidate is being refined once nminima rows are accepted.
C3_StopsAtNminima ==
    nminima >= 1 =>
        /\ Len(results) <= nminima
        /\ pc \in {"eval", "accept"} => Len(results) < nminima

\* the loop was left with nminima rows accepted and candidates still unvisited
C3_Witness ==
    /\ pc = "final"
    /\ nminima >= 1
    /\ Len(results) = nminima
    /\ ci <= Len(cands)

\* the coarse scan has a single local minimum: strictly decreasing before
\* index k and strictly increasing after it
SingleMinimum(x) ==
    \E k \in 1..Len(x) :
        /\ \A i \in 1..(k - 1) : x[i] > x[i+1]
        /\ \A i \in k..(Len(x) - 1) : x[i] < x[i+1]

\* a row without its npixels field
Unfinalized(r) == [f \in DOMAIN r \ {"npixels"} |-> r[f]]

\* C4: fitz never pads: the step that returns gives back as many rows as
\* were accepted, each of them an accepted row, and a coarse scan with a
\* single local minimum returns exactly 1 row for every nminima >= 1.
C4_NeverPads ==
    /\ [][(pc = "final" /\ pc' = "done") =>
            /\ Len(results') = Len(results)
            /\ \A k \in 1..Len(results') :
                \E j \in 1..Len(results) : Unfinalized(results'[k]) = results[j]]_vars
    /\ []((pc = "done" /\ nminima >= 1 /\ SingleMinimum(zchi2)) => Len(results) = 1)

\* fitz has returned fewer rows than nminima from a scan with a single
\* interior local minimum
C4_Witness ==
    /\ pc = "done"
    /\ Len(zchi2) = 3
    /\ SingleMinimum(zchi2)
    /\ cands = <<2>>
    /\ nminima = 2
    /\ Len(results) = 1

\* C5: with an archetype set, a candidate that passes the late duplicate
\* check is appended with the fulltype field (and the scorer's chi2 and
\* coeff); without an archetype set no row has a fulltype field.
C5_ArchetypeOverride ==
    [][/\ (pc = "accept" /\ archetype /\ ~TooClose(Accepted(loc).z, results)) =>
            /\ Len(results') = Len(results) + 1
            /\ "fulltype" \in DOMAIN results'[Len(results')]
       /\ ~archetype =>
            \A k \in 1..Len(results') : "fulltype" \notin DOMAIN results'[k]]_vars

\* C6: the call fitz makes to get_best_archetype is accepted: fitz never
\* ends in the TypeError of a call that does not match the signature.
C6_ScorerCallAccepted == pc # "TypeError"

\* C7: get_best_archetype has evaluated every archetype, and returns the
\* chi2, the coefficients and the subtype of the smallest index whose chi2
\* is the minimum.
C7_BestArchetype ==
    apc = "done" =>
        /\ \A i \in 1..narch : azzchi2[i] \in ArchChi2 /\ azzcoeff[i] \in ArchCoeff
        /\ \E iBest \in 1..narch :
            /\ \A j \in 1..narch : azzchi2[iBest] <= azzchi2[j]
            /\ \A j \in 1..(iBest - 1) : azzchi2[j] # azzchi2[iBest]
            /\ aret = <<azzchi2[iBest], azzcoeff[iBest], subtype[iBest]>>

\* get_best_archetype has returned from a set where the minimum chi2 is
\* shared by the first two archetypes, which differ in their coefficients
C7_Witness ==
    /\ apc = "done"
    /\ narch = 3
    /\ azzchi2 = <<1, 1, 2>>
    /\ azzcoeff[1] # azzcoeff[2]

\* C8: find_minima returns index i exactly when x[i] <= x[i-1] (or i is the
\* first index) and x[i] <= x[i+1] (or i is the last index), each index once.
C8_LocalMinima ==
    fpc = "done" =>
        /\ {fret[k] : k \in 1..Len(fret)} =
              {i \in 1..Len(fx) :
                  /\ (i > 1 => fx[i] <= fx[i-1])
                  /\ (i < Len(fx) => fx[i] <= fx[i+1])}
        /\ \A k, l \in 1..Len(fret) : fret[k] = fret[l] => k = l

\* find_minima has returned both indices of an interior plateau and both
\* boundary indices
C8_Witness ==
    /\ fpc = "done"
    /\ fx = <<1, 2, 1, 1, 2, 1>>
    /\ {fret[k] : k \in 1..Len(fret)} = {1, 3, 4, 6}

C10_AscendingIndices ==
    fpc = "done" => \A k \in 1..(Len(fret) - 1) : fret[k] < fret[k+1]

-----------------------------------------------------------------------------
(* Properties of minfit called on its own *)

\* the arguments of the call, as rationals
MinfitArgX == [i \in 1..Len(mx) |-> RInt(mx[i])]
MinfitArgY == [i \in 1..Len(my) |-> RInt(my[i])]

\* the three points lie on y = y0 + sgn * (x - x0)^2 / xerrSq
OnParabola(x, y, x0, xerrSq, y0, sgn) ==
    \A i \in 1..3 :
        y[i] = RAdd(y0, RMul(RInt(sgn), RDiv(RMul(RSub(x[i], x0), RSub(x[i], x0)), xerrSq)))

\* the three points lie on one straight line
Collinear(x, y) ==
    RMul(RSub(y[2], y[1]), RSub(x[3], x[2])) = RMul(RSub(y[3], y[2]), RSub(x[2], x[1]))

\* three points with distinct x that are not on a line: polyfit gives a # 0
ProperFit == Len(mx) = 3 /\ FullRank(MinfitArgX) /\ ~Collinear(MinfitArgX, MinfitArgY)

\* C11: minfit called with fewer than 3 points returns (-1, -1, -1) with
\* BAD_MINFIT set, and that is its only possible result (no fit is attempted)
C11_FewPointsSentinel ==
    (mpc = "done" /\ Len(mx) < 3) =>
        /\ mret.x0 = RInt(-1) /\ mret.xerr = RInt(-1) /\ mret.y0 = RInt(-1)
        /\ mret.zwarn = BAD_MINFIT

C11_Witness == mpc = "done" /\ Len(mx) = 2 /\ mx[1] # mx[2] /\ mret = MinfitSentinel

\* C12 as stated: whenever the fitted vertex x0 lies outside [min(x), max(x)]
\* or the fitted y0 is <= 0, minfit returns x0 = xerr = y0 = -1 with BAD_MINFIT
C12_SentinelWhenOutside ==
    (mpc = "done" /\ ProperFit) =>
        LET abc == Polyfit2(MinfitArgX, MinfitArgY)
            x0 == RDiv(RNeg(abc[2]), RMul(RInt(2), abc[1]))
            y0 == RSub(abc[3], RDiv(RMul(abc[2], abc[2]), RMul(RInt(4), abc[1])))
        IN  (RLt(x0, RMin(MinfitArgX)) \/ RLt(RMax(MinfitArgX), x0) \/ RLe(y0, RInt(0))) =>
                mret = MinfitSentinel

\* C12, amended: on three points with distinct x that are not on a line,
\* minfit returns the computed vertex x0, y0 and xerr = 1/sqrt(|a|) of the
\* parabola through the points, whether or not it flags the fit; BAD_MINFIT is
\* set exactly when x0 <= min(x), or max(x) <= x0, or y0 <= 0, or the
\* parabola opens downwards
C12_FlagWithComputedValues ==
    (mpc = "done" /\ ProperFit) =>
        /\ RLt(RInt(0), mret.xerr)
        /\ \E sgn \in {1, -1} :
            /\ OnParabola(MinfitArgX, MinfitArgY, mret.x0, mret.xerr, mret.y0, sgn)
            /\ (mret.zwarn = BAD_MINFIT) <=>
                    \/ RLe(mret.x0, RMin(MinfitArgX))
                    \/ RLe(RMax(MinfitArgX), mret.x0)
                    \/ RLe(mret.y0, RInt(0))
                    \/ sgn = -1
            /\ mret.zwarn \in {{}, BAD_MINFIT}

C12_Witness ==
    /\ mpc = "done" /\ ProperFit
    /\ RLt(RMax(MinfitArgX), mret.x0)
    /\ mret.zwarn = BAD_MINFIT
    /\ OnParabola(MinfitArgX, MinfitArgY, mret.x0, mret.xerr, mret.y0, 1)

\* the parabolas y = y0 + ((x - x0)/xerr)^2 the inputs are compared with:
\* x0 in quarters, y0 in eighths, xerr^2 from a few values
ParabolaParams ==
    [x0 : {Rat(k, 4) : k \in 1..7},
     xerrSq : {Rat(2, 1), Rat(1, 1), Rat(2, 3), Rat(1, 2), Rat(1, 3)},
     y0 : {Rat(k, 8) : k \in 1..24}]

\* C13: for three points (distinct x) on an exact parabola
\* y = y0 + ((x - x0)/xerr)^2 with min(x) < x0 < max(x) and y0 > 0, minfit
\* returns that x0, xerr and y0 with zwarn = 0
C13_ExactParabola ==
    (mpc = "done" /\ Len(mx) = 3 /\ FullRank(MinfitArgX)) =>
        \A p \in ParabolaParams :
            ( /\ OnParabola(MinfitArgX, MinfitArgY, p.x0, p.xerrSq, p.y0, 1)
              /\ RLt(RMin(MinfitArgX), p.x0) /\ RLt(p.x0, RMax(MinfitArgX)) ) =>
                mret = [x0 |-> p.x0, xerr |-> p.xerrSq, y0 |-> p.y0, zwarn |-> {}]

C13_Witness ==
    /\ mpc = "done" /\ Len(mx) = 3 /\ FullRank(MinfitArgX)
    /\ mret.zwarn = {}
    /\ mret.x0 # RInt(1)
    /\ \E p \in ParabolaParams :
        /\ OnParabola(MinfitArgX, MinfitArgY, p.x0, p.xerrSq, p.y0, 1)
        /\ mret = [x0 |-> p.x0, xerr |-> p.xerrSq, y0 |-> p.y0, zwarn |-> {}]

-----------------------------------------------------------------------------
(* Properties of fitz: result columns, failures, frame *)

\* C14: every row of the returned table has npixels equal to the number of
\* samples with ivar > 0 summed over all spectra, whatever its z and zwarn
C14_NPixels ==
    pc = "done" =>
        \A r \in 1..Len(results) :
            results[r].npixels =
                Cardinality({sk \in UNION {{<<j, k>> : k \in 1..Len(spectra[j])} : j \in 1..Len(spectra)} :
                                spectra[sk[1]][sk[2]] > 0})

C14_Witness ==
    /\ pc = "done" /\ Len(results) = 2
    /\ results[1].zwarn # results[2].zwarn
    /\ results[1].z # results[2].z
    /\ results[1].npixels = 3 /\ results[2].npixels = 3

\* C15: when the loop ends with no accepted result, fitz fails with an
\* assertion error and returns nothing; a returned table is never empty
C15_EmptyIsFatal ==
    /\ [][(pc = "final" /\ Len(results) = 0) => (pc' = "AssertionError" /\ results' = <<>>)]_vars
    /\ [](pc = "done" => Len(results) > 0)

C15_Witness ==
    pc = "AssertionError" /\ Len(zchi2) = Len(redshifts) /\ cands # <<>> /\ results = <<>>

\* C16: when len(zchi2) # len(redshifts), or the coarse scan has fewer than
\* 2 points, fitz fails before it refines any candidate
C16_MalformedFailsFirst ==
    (Len(zchi2) # Len(redshifts) \/ Len(zchi2) < 2) =>
        (loc = NoLoc /\ pc \notin {"eval", "accept", "done"})

\* the parabolic fit of the candidate was degenerate: minfit gave its sentinel
DegenerateFit(l) ==
    l.set /\ l.zmin = RInt(-1) /\ l.sigma = RInt(-1) /\ l.chi2min = RInt(-1)

\* C17: after a degenerate fit (singular, or leading coefficient zero) the
\* candidate carries BAD_MINFIT and fitz goes on: the evaluation at zmin leads
\* to the acceptance step, and the acceptance step leads back to the loop,
\* any appended row carrying BAD_MINFIT; no step ends in an exception
C17_DegenerateFitRecovered ==
    [][DegenerateFit(loc) =>
        /\ BAD_MINFIT \subseteq loc.zwarn
        /\ pc = "eval" => pc' = "accept"
        /\ pc = "accept" =>
            /\ pc' = "loop"
            /\ Len(results') > Len(results) =>
                    BAD_MINFIT \subseteq results'[Len(results')].zwarn]_vars

LastRow(rows) == rows[Len(rows)]

\* C20 as stated: without archetype and without fallback, the row reports the
\* chi2 and the coeff of the single-point evaluation at zmin
C20_SinglePointChi2 ==
    [][(pc = "accept" /\ ~archetype /\ ~OutsideFineScan(loc)
            /\ Len(results') = Len(results) + 1) =>
        /\ loc.chi2 # <<>>
        /\ LastRow(results').chi2 = RInt(loc.chi2[1])
        /\ LastRow(results').coeff = loc.coeff]_vars

\* C20, amended: without archetype and without fallback, the row reports the
\* coeff of the single-point evaluation at zmin, and as chi2 the parabola's
\* fitted minimum y0 (chi2min); the chi2 of the single-point evaluation is
\* computed and not reported
C20_ParabolaChi2SinglePointCoeff ==
    [][(pc = "accept" /\ ~archetype /\ ~OutsideFineScan(loc)
            /\ Len(results') = Len(results) + 1) =>
        /\ loc.chi2 # <<>>
        /\ loc.coeff \in EvalCoeff
        /\ LastRow(results').chi2 = loc.chi2min
        /\ LastRow(results').coeff = loc.coeff]_vars

C20_Witness ==
    /\ pc = "loop" /\ ~archetype /\ Len(results) >= 1
    /\ LastRow(results).zwarn = {}
    /\ LastRow(results).coeff \in EvalCoeff
    /\ \A c2 \in EvalChi2 : RLt(LastRow(results).chi2, RInt(c2))

-----------------------------------------------------------------------------
(* Properties of fitz: the candidate's redshift, flags and coefficients *)

\* zmin < redshifts[0] or redshifts[-1] < zmin, for the locals l of a candidate
OutsideScanRange(l) ==
    \/ RLt(l.zmin, RInt(redshifts[1]))
    \/ RLt(RInt(redshifts[Len(redshifts)]), l.zmin)

AllZero(co) == \A b \in 1..Len(co) : co[b] = 0

\* C21 as stated: whenever zmin is outside [redshifts[0], redshifts[-1]], no
\* evaluation at zmin is used: the candidate's coefficients are all zero and
\* its zwarn has Z_FITLIMIT and BAD_MINFIT
C21_NoRebinOutsideScan ==
    (pc = "accept" /\ OutsideScanRange(loc)) =>
        /\ loc.chi2 = <<>>
        /\ Len(loc.coeff) = nbasis /\ AllZero(loc.coeff)
        /\ (Z_FITLIMIT \cup BAD_MINFIT) \subseteq loc.zwarn

\* C21, amended: the evaluation at zmin is always attempted.  When zmin is
\* outside [redshifts[0], redshifts[-1]] and the evaluation raises ValueError,
\* the coefficients are all zero and zwarn gets Z_FITLIMIT and BAD_MINFIT;
\* when the evaluation succeeds, the coefficients are those it returned.
\* Either way the row appended for such a candidate has both flags.
C21_ZeroCoeffOnValueError ==
    /\ []((pc = "accept" /\ OutsideScanRange(loc)) =>
            /\ Len(loc.coeff) = nbasis
            /\ IF loc.chi2 = <<>>
               THEN AllZero(loc.coeff) /\ (Z_FITLIMIT \cup BAD_MINFIT) \subseteq loc.zwarn
               ELSE loc.coeff \in EvalCoeff)
    /\ [][(pc = "accept" /\ OutsideScanRange(loc) /\ Len(results') = Len(results) + 1) =>
            (Z_FITLIMIT \cup BAD_MINFIT) \subseteq LastRow(results').zwarn]_vars

C21_Witness ==
    /\ pc = "loop" /\ ~archetype /\ Len(results) >= 1
    /\ AllZero(LastRow(results).coeff)
    /\ (Z_FITLIMIT \cup BAD_MINFIT) \subseteq LastRow(results).zwarn

\* row r has the redshift and the chi2 of the first point of its fine scan
\* that attains min(zzchi2)
AtFineScanMinimum(r) ==
    \E i \in 1..Len(r.zzchi2) :
        /\ \A j \in 1..Len(r.zzchi2) : r.zzchi2[i] <= r.zzchi2[j]
        /\ \A j \in 1..(i - 1) : r.zzchi2[j] > r.zzchi2[i]
        /\ r.z = r.zz[i]
        /\ r.chi2 = RInt(r.zzchi2[i])

\* C22: a row appended for a candidate whose zmin is outside [zz[0], zz[-1]]
\* has BAD_MINFIT and the redshift and chi2 of the fine scan's minimum point
\* (first index of the minimum); and the redshift of every row lies within
\* [zz[0], zz[-1]] of the row's own fine scan
C22_FineScanFallback ==
    /\ [][(pc = "accept" /\ Len(results') = Len(results) + 1
                /\ (RLt(loc.zmin, loc.zz[1]) \/ RLt(loc.zz[Len(loc.zz)], loc.zmin))) =>
            /\ BAD_MINFIT \subseteq LastRow(results').zwarn
            /\ LastRow(results').zz = loc.zz /\ LastRow(results').zzchi2 = loc.zzchi2
            /\ AtFineScanMinimum(LastRow(results'))]_vars
    /\ [](\A r \in 1..Len(results) :
            /\ RLe(results[r].zz[1], results[r].z)
            /\ RLe(results[r].z, results[r].zz[Len(results[r].zz)]))

C22_Witness ==
    /\ pc = "loop" /\ Len(results) >= 1
    /\ LastRow(results).zerr # RInt(-1)
    /\ BAD_MINFIT \subseteq LastRow(results).zwarn
    /\ LastRow(results).z = LastRow(results).zz[1]
    /\ AtFineScanMinimum(LastRow(results))

\* C23: every row whose redshift is below redshifts[1] or above redshifts[-2]
\* has Z_FITLIMIT, whatever its BAD_MINFIT bit (C23_Witness: a row with
\* Z_FITLIMIT set and BAD_MINFIT clear)
C23_FitLimitAtEdges ==
    \A r \in 1..Len(results) :
        ( \/ RLt(results[r].z, RInt(redshifts[2]))
          \/ RLt(RInt(redshifts[Len(redshifts) - 1]), results[r].z) ) =>
            Z_FITLIMIT \subseteq results[r].zwarn

C23_Witness ==
    /\ Len(redshifts) = 3
    /\ \E r \in 1..Len(results) :
        /\ results[r].zwarn = Z_FITLIMIT
        /\ RLt(results[r].z, RInt(redshifts[2]))
        /\ RLt(RInt(redshifts[1]), results[r].z)

\* the loop is at a candidate (no break) whose coarse redshift is within the
\* threshold velocity of an accepted row
AtCloseCandidate ==
    /\ pc = "loop" /\ ci <= Len(cands) /\ Len(results) # nminima
    /\ \E r \in 1..Len(results) :
            ~Separated(RInt(redshifts[cands[ci]]), results[r].z)

\* C24: a coarse candidate within the threshold velocity of an accepted row
\* is skipped before any fine sampling: the step leaves results (and so the
\* accepted count) unchanged, starts no fine scan, and moves the loop to the
\* next candidate
C24_EarlySkipFrame ==
    [][AtCloseCandidate =>
        /\ results' = results
        /\ loc' = NoLoc
        /\ pc' = "loop"
        /\ ci' = ci + 1
        /\ cands' = cands]_vars

C24_Witness == AtCloseCandidate /\ Len(results) = 1 /\ ci < Len(cands)

\* C25: while candidate imin = cands[ci] is refined, its fine grid has exactly
\* 15 points, starts at redshifts[max(0, imin-1)], ends at
\* redshifts[min(imin+1, n-1)] and is evenly spaced; both indices are within
\* the coarse grid
C25_FineGrid ==
    loc.set =>
        LET imin == cands[ci]
            n == Len(redshifts)
            ilo == IF imin = 1 THEN 1 ELSE imin - 1
            ihi == IF imin = n THEN n ELSE imin + 1
        IN  /\ ilo \in 1..n /\ ihi \in 1..n
            /\ Len(loc.zz) = 15
            /\ loc.zz[1] = RInt(redshifts[ilo])
            /\ loc.zz[15] = RInt(redshifts[ihi])
            /\ \A j \in 1..13 :
                RSub(loc.zz[j + 1], loc.zz[j]) = RSub(loc.zz[j + 2], loc.zz[j + 1])

\* a boundary candidate (the last index) with its one-sided grid
C25_Witness ==
    /\ loc.set /\ Len(redshifts) = 3 /\ cands[ci] = 3
    /\ loc.zz[1] = RInt(redshifts[2]) /\ loc.zz[15] = RInt(redshifts[3])
    /\ loc.zz[2] = Rat(15, 14)

\* C26: the arguments of the minfit call of fitz are exactly 3 consecutive
\* fine-grid points, centred on the first index of min(zzchi2) moved into
\* 1..13 (0-based): fitz never calls minfit with fewer than 3 points
C26_ThreePointWindow ==
    loc.set =>
        /\ Len(loc.fitx) = 3 /\ Len(loc.fity) = 3
        /\ \E i \in 2..14 :
            /\ \E am \in 1..15 :
                /\ \A j \in 1..15 : loc.zzchi2[am] <= loc.zzchi2[j]
                /\ \A j \in 1..(am - 1) : loc.zzchi2[j] > loc.zzchi2[am]
                /\ i = (IF am = 1 THEN 2 ELSE IF am = 15 THEN 14 ELSE am)
            /\ loc.fitx = <<loc.zz[i - 1], loc.zz[i], loc.zz[i + 1]>>
            /\ loc.fity = <<loc.zzchi2[i - 1], loc.zzchi2[i], loc.zzchi2[i + 1]>>

\* the fine-scan minimum is at the last fine-grid index: the window is the
\* last three points
C26_Witness ==
    /\ loc.set
    /\ \A j \in 1..14 : loc.zzchi2[15] < loc.zzchi2[j]
    /\ loc.fitx = <<loc.zz[13], loc.zz[14], loc.zz[15]>>

\* the parabola through the three points opens downwards (a < 0): the slope
\* between the points falls as x grows
OpensDownwards(x, y) ==
    RLt(RDiv(RSub(RDiv(RSub(y[3], y[2]), RSub(x[3], x[2])),
                  RDiv(RSub(y[2], y[1]), RSub(x[2], x[1]))),
             RSub(x[3], x[1])),
        RInt(0))

\* C27: when the fitted leading coefficient a is negative, minfit returns the
\* vertex x0, y0 of the fitted parabola and xerr = 1/sqrt(|a|), a positive
\* value (xerr^2 * |a| = 1), with BAD_MINFIT set
C27_NegativeCurvature ==
    (mpc = "done" /\ Len(mx) = 3 /\ FullRank(MinfitArgX)
            /\ OpensDownwards(MinfitArgX, MinfitArgY)) =>
        /\ mret.zwarn = BAD_MINFIT
        /\ RLt(RInt(0), mret.xerr)
        /\ OnParabola(MinfitArgX, MinfitArgY, mret.x0, mret.xerr, mret.y0, -1)

\* a < 0 is the only reason for the flag: the vertex is inside and y0 > 0
C27_Witness ==
    /\ mpc = "done" /\ Len(mx) = 3 /\ FullRank(MinfitArgX)
    /\ OpensDownwards(MinfitArgX, MinfitArgY)
    /\ mret.zwarn = BAD_MINFIT
    /\ RLt(RMin(MinfitArgX), mret.x0) /\ RLt(mret.x0, RMax(MinfitArgX))
    /\ RLt(RInt(0), mret.y0)
    /\ mret.xerr = Rat(1, 2)

\* fitz was called with nminima >= 1 on a non-empty coarse scan that passes
\* the length assertion
NonEmptyScan == nminima >= 1 /\ Len(zchi2) >= 1 /\ Len(zchi2) = Len(redshifts)

\* C28: the first candidate is never removed by de-duplication, so a call
\* with nminima >= 1 on a non-empty coarse scan whose evaluations raise no
\* error (no ValueError of the evaluation at zmin, no TypeError of the
\* archetype evaluation) ends with at least one accepted result and not in a
\* failed assertion; with nminima = 0 the call ends in the failed assertion
C28_FirstCandidateAccepted ==
    /\ [][(NonEmptyScan /\ ci = 1 /\ ci' = 2) => Len(results') = 1]_vars
    /\ []((NonEmptyScan /\ pc \in {"done", "AssertionError", "IndexError"}) =>
            (pc = "done" /\ Len(results) >= 1))
    /\ []((nminima = 0 /\ Len(zchi2) >= 1 /\ pc \in {"done", "AssertionError", "IndexError"}) =>
            pc = "AssertionError")

\* C29: in a row produced by the fine-scan fallback without archetype, z and
\* chi2 are those of the fine-scan minimum point, while coeff is the vector
\* obtained for zmin (the result of the single-point evaluation, or all zeros
\* when the evaluation raised ValueError), not the coefficient row the fine
\* scan gave for that point
C29_FallbackKeepsZminCoeff ==
    [][(pc = "accept" /\ ~archetype /\ Len(results') = Len(results) + 1
            /\ (RLt(loc.zmin, loc.zz[1]) \/ RLt(loc.zz[Len(loc.zz)], loc.zmin))) =>
        /\ AtFineScanMinimum(LastRow(results'))
        /\ LastRow(results').z # loc.zmin
        /\ LastRow(results').coeff = loc.coeff
        /\ IF loc.chi2 = <<>> THEN AllZero(loc.coeff) ELSE loc.coeff \in EvalCoeff
        /\ \A j \in 1..Len(loc.zz) :
            (LastRow(results').z = loc.zz[j]) => LastRow(results').coeff # loc.zzcoeff[j]]_vars

\* a fallback row that carries the coefficients of the evaluation at a zmin
\* above its fine scan
C29_Witness ==
    /\ pc = "loop" /\ ~archetype /\ Len(results) >= 1
    /\ BAD_MINFIT \subseteq LastRow(results).zwarn
    /\ LastRow(results).zerr # RInt(-1)
    /\ LastRow(results).z = LastRow(results).zz[15]
    /\ AtFineScanMinimum(LastRow(results))
    /\ LastRow(results).coeff \in EvalCoeff


\* the step is a call of sharedmem_pack / of sharedmem_unpack
IsPackStep == shist' = Append(shist, "pack")
IsUnpackStep == shist' = Append(shist, "unpack")

=============================================================================
